---- MODULE Spec2Model ----
(***************************************************************************)
(* A model of ComfyUI-S3 (src/nodes.py): the JSON configuration file and   *)
(* its manager, the storage client factory, and the four operation nodes   *)
(* (Save, Load, List, Config-Info) acting on an S3-compatible store.       *)
(*                                                                         *)
(* Python strings are TLA+ strings.  JSON values are tagged records, a     *)
(* dict being the sequence of its <<key, value>> pairs in insertion order. *)
(* A call's outcome is Return(value) or Raise(exception type, message).    *)
(* Pixel values are exact rationals n / (Levels * Sub): float32 rounding   *)
(* is not modelled.                                                        *)
(***************************************************************************)
EXTENDS Integers, Sequences, FiniteSets, TLC

VARIABLES
    config_file,   \* the file CONFIG_FILE on disk
    store,         \* the S3 service: bucket name -> [exists, objects]
    clock,         \* wall clock, in ticks of 1/TicksPerSecond s
    saves,         \* number of Save calls that reached the storage so far
    written,       \* history: every object a Save call uploaded
    last           \* the last operation: its inputs, storage calls, outcome

vars == <<config_file, store, clock, saves, written, last>>

----------------------------------------------------------------------------
(* Bounds of the model *)

MaxImages == 2        \* images in one Save batch: 0..MaxImages
MaxSaves == 2         \* Save calls in one behaviour
MaxClock == 3         \* the clock stops after MaxClock ticks
MaxK == 2             \* max_objects ranges over 0..MaxK
TicksPerSecond == 2   \* instants the model tells apart within one second
Sub == 2              \* pixel values the model tells apart within one 8-bit level

----------------------------------------------------------------------------
(* Python string operations *)

startswith(s, p) == Len(s) >= Len(p) /\ SubSeq(s, 1, Len(p)) = p

RECURSIVE rstrip(_, _)
rstrip(s, ch) ==
    IF Len(s) > 0 /\ SubSeq(s, Len(s), Len(s)) = ch
    THEN rstrip(SubSeq(s, 1, Len(s) - 1), ch)
    ELSE s

\* sub in s, for two strings
contains(s, sub) ==
    \E i \in 1..(Len(s) - Len(sub) + 1) : SubSeq(s, i, i + Len(sub) - 1) = sub

RECURSIVE zfill(_, _)
zfill(s, width) == IF Len(s) >= width THEN s ELSE zfill("0" \o s, width)

\* f"{n:04d}" and strftime's two-digit fields, for n >= 0
format_d(n, width) == zfill(ToString(n), width)

----------------------------------------------------------------------------
(* JSON values as Python sees them after json.load *)

JNull == [t |-> "null"]
JBool(b) == [t |-> "bool", b |-> b]
JNum(n) == [t |-> "num", n |-> n]
JStr(s) == [t |-> "str", s |-> s]
JArr(items) == [t |-> "arr", items |-> items]
JObj(members) == [t |-> "obj", members |-> members]

\* bool(v)
Truthy(v) ==
    CASE v.t = "null" -> FALSE
      [] v.t = "bool" -> v.b
      [] v.t = "num" -> v.n # 0
      [] v.t = "str" -> Len(v.s) > 0
      [] v.t = "arr" -> Len(v.items) > 0
      [] v.t = "obj" -> Len(v.members) > 0

HasKey(members, k) == \E i \in 1..Len(members) : members[i][1] = k

\* dict.get(k, default)
dict_get(members, k, default) ==
    IF HasKey(members, k)
    THEN members[CHOOSE i \in 1..Len(members) : members[i][1] = k][2]
    ELSE default

\* list(dict.keys())
dict_keys(members) == [i \in 1..Len(members) |-> members[i][1]]

Return(v) == [raised |-> FALSE, value |-> v]
Raise(exc, msg) == [raised |-> TRUE, exc |-> exc, msg |-> msg]

----------------------------------------------------------------------------
(* The configuration file *)

Absent == [exists |-> FALSE]
FileText(text) == [exists |-> TRUE, text |-> text]    \* not parseable as JSON
FileJson(v) == [exists |-> TRUE, json |-> v]          \* the JSON text of v
Parses(file) == "json" \in DOMAIN file

Profile(name, endpoint, access_key, secret_key, secure, region) ==
    JObj(<< <<"name", JStr(name)>>, <<"endpoint", JStr(endpoint)>>,
            <<"access_key", JStr(access_key)>>, <<"secret_key", JStr(secret_key)>>,
            <<"secure", JBool(secure)>>, <<"region", JStr(region)>> >>)

default_config ==
    JObj(<< <<"profiles", JObj(<<
                <<"aws_s3", Profile("AWS S3", "s3.amazonaws.com",
                    "YOUR_AWS_ACCESS_KEY", "YOUR_AWS_SECRET_KEY", TRUE, "us-east-1")>>,
                <<"minio_local", Profile("Local MinIO", "localhost:9000",
                    "minioadmin", "minioadmin", FALSE, "us-east-1")>>,
                <<"digitalocean", Profile("DigitalOcean Spaces", "nyc3.digitaloceanspaces.com",
                    "YOUR_DO_ACCESS_KEY", "YOUR_DO_SECRET_KEY", TRUE, "nyc3")>>,
                <<"backblaze", Profile("Backblaze B2", "s3.us-west-004.backblazeb2.com",
                    "YOUR_B2_KEY_ID", "YOUR_B2_APPLICATION_KEY", TRUE, "us-west-004")>> >>)>>,
            <<"default_profile", JStr("aws_s3")>> >>)

\* What open(CONFIG_FILE, 'w') and json.dump can do: succeed, fail before the
\* file is created (open raises), or fail after open created the file.
WriteOutcomes == {"ok", "open_fails", "dump_fails"}

\* What a call of create_default_config meets: the outcome of the write, and
\* whether print can write its messages to stdout.  The messages hold emoji,
\* which an ascii or cp1252 stdout cannot encode: print then raises
\* UnicodeEncodeError.
Environments == [write : WriteOutcomes, prints : BOOLEAN]

\* A call that meets no failure; also the value passed where the file exists
\* and create_default_config is not called.
Untroubled == [write |-> "ok", prints |-> TRUE]

\* The file after create_default_config.
create_default_config(file, w) ==
    CASE w.write = "ok" -> FileJson(default_config)
      [] w.write = "open_fails" -> file
      [] w.write = "dump_fails" -> FileText("truncated")

\* The outcome of create_default_config.  A failed write is caught at line
\* 97; a print that fails at line 95 is caught there too, but the handler's
\* own print at line 98 then fails outside any try, and so it does after a
\* failed write: the call raises whenever stdout cannot encode the messages.
create_default_config_out(w) ==
    IF w.prints THEN Return(JNull)
    ELSE Raise("UnicodeEncodeError", [what |-> "print", line |-> 98])

load_config_file_mut(file, w) == create_default_config(file, w)

\* The file after load_config.
load_config_file(file, w) ==
    IF ~file.exists THEN create_default_config(file, w) ELSE file

\* The outcome of reading the file: open(CONFIG_FILE, 'r') and json.load.
read_config(f) ==
    IF ~f.exists
    THEN Raise("ValueError", [what |-> "load_failed", cause |-> "FileNotFoundError"])
    ELSE IF ~Parses(f)
    THEN Raise("ValueError", [what |-> "load_failed", cause |-> "JSONDecodeError"])
    ELSE Return(f.json)

\* The outcome of load_config: create_default_config is called at line 42,
\* outside the try, so what it raises leaves load_config as it is.
load_config(file, w) ==
    IF ~file.exists /\ create_default_config_out(w).raised
    THEN create_default_config_out(w)
    ELSE read_config(load_config_file(file, w))

\* config.get("profiles", {}): Return(profiles), or AttributeError when the
\* top-level JSON value is not an object.
get_profiles(config) ==
    IF config.t # "obj"
    THEN Raise("AttributeError", [what |-> "no_attribute", attr |-> "get"])
    ELSE Return(dict_get(config.members, "profiles", JObj(<<>>)))

\* list(profiles.keys()), or ["default"] on any exception
profile_keys(profiles) ==
    IF profiles.raised THEN <<"default">>
    ELSE IF profiles.value.t # "obj" THEN <<"default">>
    ELSE dict_keys(profiles.value.members)

names_of(loaded) ==
    IF loaded.raised THEN <<"default">> ELSE profile_keys(get_profiles(loaded.value))

get_profile_names(file, w) == names_of(load_config(file, w))

required_fields == <<"endpoint", "access_key", "secret_key">>

\* One round of the validation loop: "invalid" (the ValueError is raised),
\* "attribute_error" (startswith on a non-string) or "ok".
check_value(v) ==
    IF ~Truthy(v) THEN "invalid"
    ELSE IF v.t # "str" THEN "attribute_error"
    ELSE IF startswith(v.s, "YOUR_") THEN "invalid"
    ELSE "ok"

field_check(members, f) == check_value(dict_get(members, f, JNull))

first_failure_mut(checks) ==
    IF \A i \in DOMAIN checks : checks[i] = "ok" THEN 0
    ELSE CHOOSE i \in DOMAIN checks :
            checks[i] # "ok" /\ \A k \in DOMAIN checks : checks[k] # "ok" => k <= i

\* The first round of the loop that does not pass; 0 when all pass.
first_failure(checks) ==
    IF \A i \in DOMAIN checks : checks[i] = "ok" THEN 0
    ELSE CHOOSE i \in DOMAIN checks :
            checks[i] # "ok" /\ \A k \in DOMAIN checks : checks[k] # "ok" => i <= k

validation_outcome(profile_name, profile, checks, i) ==
    IF i = 0 THEN Return(profile)
    ELSE IF checks[i] = "invalid"
    THEN Raise("ValueError", [what |-> "invalid_field",
               profile |-> profile_name, field |-> required_fields[i]])
    ELSE Raise("AttributeError", [what |-> "no_attribute", attr |-> "startswith"])

run_checks(profile_name, profile, checks) ==
    validation_outcome(profile_name, profile, checks, first_failure(checks))

\* The loop over required_fields: the first field that does not pass decides.
validate_profile(profile_name, profile) ==
    IF profile.t # "obj"
    THEN Raise("AttributeError", [what |-> "no_attribute", attr |-> "get"])
    ELSE run_checks(profile_name, profile,
                    [i \in 1..Len(required_fields) |->
                        field_check(profile.members, required_fields[i])])

\* `profile_name not in profiles` and `profiles[profile_name]` when profiles
\* is not a dict.
lookup_in_non_dict(profile_name, profiles) ==
    CASE profiles.t \in {"null", "num", "bool"} ->
            Raise("TypeError", [what |-> "not_iterable"])
      [] profiles.t = "arr" ->
            IF \E i \in 1..Len(profiles.items) : profiles.items[i] = JStr(profile_name)
            THEN Raise("TypeError", [what |-> "bad_index"])
            ELSE Raise("AttributeError", [what |-> "no_attribute", attr |-> "keys"])
      [] profiles.t = "str" ->
            IF contains(profiles.s, profile_name)
            THEN Raise("TypeError", [what |-> "bad_index"])
            ELSE Raise("AttributeError", [what |-> "no_attribute", attr |-> "keys"])

find_profile(profiles, profile_name) ==
    IF profiles.t # "obj" THEN lookup_in_non_dict(profile_name, profiles)
    ELSE IF ~HasKey(profiles.members, profile_name)
    THEN Raise("ValueError", [what |-> "profile_not_found", profile |-> profile_name,
               available |-> dict_keys(profiles.members)])
    ELSE validate_profile(profile_name, dict_get(profiles.members, profile_name, JNull))

profile_in(profiles, profile_name) ==
    IF profiles.raised THEN profiles ELSE find_profile(profiles.value, profile_name)

profile_of(loaded, profile_name) ==
    IF loaded.raised THEN loaded
    ELSE profile_in(get_profiles(loaded.value), profile_name)

get_profile(file, w, profile_name) == profile_of(load_config(file, w), profile_name)

----------------------------------------------------------------------------
(* S3Client.create_from_profile, with the minio library installed *)

\* The endpoint and the secure flag Minio(...) is constructed with.
minio_arguments(endpoint, secure) ==
    IF startswith(endpoint, "https://")
    THEN [endpoint |-> SubSeq(endpoint, 9, Len(endpoint)), secure |-> TRUE]
    ELSE IF startswith(endpoint, "http://")
    THEN [endpoint |-> SubSeq(endpoint, 8, Len(endpoint)), secure |-> FALSE]
    ELSE [endpoint |-> endpoint, secure |-> Truthy(secure)]

client_for(got) ==
    IF got.raised THEN got
    ELSE Return([client |-> minio_arguments(dict_get(got.value.members, "endpoint", JNull).s,
                                            dict_get(got.value.members, "secure", JBool(TRUE))),
                 profile_config |-> got.value])

create_from_profile(file, w, profile_name) == client_for(get_profile(file, w, profile_name))

----------------------------------------------------------------------------
(* Images and PNG objects *)

Levels == 255
Unit == Levels * Sub     \* the pixel value 1.0

clip(n, lo, hi) == IF n < lo THEN lo ELSE IF n > hi THEN hi ELSE n

\* a conversion that rounds to the nearest byte where the code truncates
to_uint8_mut(n) == (2 * clip(n, 0, Unit) + Sub) \div (2 * Sub)

\* np.clip(255. * v, 0, 255).astype(np.uint8) of the value n / Unit
to_uint8(n) == clip(n, 0, Unit) \div Sub

\* astype(np.float32) / 255.0 of a byte, as a numerator over Unit
to_float(q) == q * Sub

\* json.dumps of a value, kept as the value it denotes
json_dumps(v) == [json |-> v]

\* The PngInfo text chunks built from prompt and extra_pnginfo.
png_text(prompt, extra_pnginfo) ==
    (IF prompt # JNull THEN << <<"prompt", json_dumps(prompt)>> >> ELSE <<>>)
    \o (IF extra_pnginfo # JNull
        THEN [i \in 1..Len(extra_pnginfo.members) |->
                <<extra_pnginfo.members[i][1], json_dumps(extra_pnginfo.members[i][2])>>]
        ELSE <<>>)

\* Image.fromarray(...) and img.save(format='PNG', pnginfo=metadata): the PNG
\* bytes of a one-pixel image, as the pixel and the text chunks they decode to.
encode_png(image, prompt, extra_pnginfo) ==
    [mode |-> IF Len(image) = 4 THEN "RGBA" ELSE "RGB",
     px |-> [c \in 1..Len(image) |-> to_uint8(image[c])],
     text |-> png_text(prompt, extra_pnginfo)]

\* Image.open and the conversions of load_image: (image, mask) for one pixel.
decode_png(png) ==
    [image |-> << [c \in 1..3 |-> to_float(png.px[c])] >>,
     mask |-> << IF png.mode = "RGBA" THEN Unit - to_float(png.px[4]) ELSE 0 >>]

----------------------------------------------------------------------------
(* The S3 service *)

Buckets == {"b1"}

\* A bucket's objects: a sequence of [key, data], in the order the keys were
\* first written.
has_object(objects, key) == \E i \in 1..Len(objects) : objects[i].key = key

get_object(objects, key) ==
    objects[CHOOSE i \in 1..Len(objects) : objects[i].key = key].data

\* put_object: a new object, or the replacement of the object under the key
put_object(objects, key, data) ==
    IF has_object(objects, key)
    THEN [i \in 1..Len(objects) |->
            IF objects[i].key = key THEN [key |-> key, data |-> data] ELSE objects[i]]
    ELSE Append(objects, [key |-> key, data |-> data])

RECURSIVE put_all(_, _)
put_all(objects, entries) ==
    IF entries = <<>> THEN objects
    ELSE put_all(put_object(objects, Head(entries).key, Head(entries).data), Tail(entries))

\* a timestamp with the resolution of a minute: "%Y%m%d_%H%M"
strftime_mut(now) ==
    LET sec == now \div TicksPerSecond IN
    "20250101_" \o format_d(sec \div 3600, 2) \o format_d((sec \div 60) % 60, 2)

\* datetime.now().strftime("%Y%m%d_%H%M%S"); the clock starts at midnight
strftime(now) ==
    LET sec == now \div TicksPerSecond IN
    "20250101_" \o format_d(sec \div 3600, 2) \o format_d((sec \div 60) % 60, 2)
                \o format_d(sec % 60, 2)

Min(a, b) == IF a < b THEN a ELSE b

NoFault == [at |-> "none", k |-> 0]

----------------------------------------------------------------------------
(* SaveImageToS3.save_images *)

resolve_region_mut(custom_region, profile_config) ==
    dict_get(profile_config.members, "region", JStr("us-east-1"))

\* custom_region or profile_config.get("region", "us-east-1")
resolve_region(custom_region, profile_config) ==
    IF Len(custom_region) > 0 THEN JStr(custom_region)
    ELSE dict_get(profile_config.members, "region", JStr("us-east-1"))

make_filename_mut(filename_prefix, timestamp, batch_number) ==
    filename_prefix \o "_" \o timestamp \o ".png"

make_filename(filename_prefix, timestamp, batch_number) ==
    filename_prefix \o "_" \o timestamp \o "_" \o format_d(batch_number, 4) \o ".png"

make_object_key(prefix, filename) == rstrip(prefix, "/") \o "/" \o filename

url_for(endpoint, secure, bucket, object_key) ==
    IF ~(startswith(endpoint, "http://") \/ startswith(endpoint, "https://"))
    THEN (IF secure THEN "https" ELSE "http")
            \o "://" \o endpoint \o "/" \o bucket \o "/" \o object_key
    ELSE endpoint \o "/" \o bucket \o "/" \o object_key

make_url(profile_config, bucket, object_key) ==
    url_for(dict_get(profile_config.members, "endpoint", JNull).s,
            Truthy(dict_get(profile_config.members, "secure", JBool(TRUE))),
            bucket, object_key)

images_done_mut(n, fault) == n

\* Images the loop finishes (encoded, uploaded, recorded) before it stops.
images_done(n, fault) ==
    IF fault.at \in {"encode", "put_object"} THEN Min(fault.k, n) ELSE n

\* put_object calls the loop issues, the failing one included.
puts_issued(n, fault) ==
    IF fault.at = "put_object" /\ fault.k < n THEN fault.k + 1 ELSE images_done(n, fault)

\* Both except clauses re-raise as ValueError.
wrap_error(what, e) == Raise("ValueError", [what |-> what, cause |-> e])

S3Error(call) == [raised |-> TRUE, exc |-> "S3Error", msg |-> [what |-> call]]

\* What a call leaves and returns: the file, the store, the storage calls it
\* made in order, its timestamp, the keys it uploaded, its outcome.
SaveResult(file, st, calls, timestamp, stored, out) ==
    [file |-> file, store |-> st, calls |-> calls, timestamp |-> timestamp,
     stored |-> stored, out |-> out]

save_outcome(n, done, fault, results) ==
    IF done < n
    THEN IF fault.at = "put_object"
         THEN wrap_error("s3_error", S3Error("put_object"))
         ELSE wrap_error("save_failed", Raise("Exception", [what |-> "encode"]))
    ELSE Return(results)

\* The loop over the batch; keys[j] and pngs[j] are image j - 1's object key
\* and PNG bytes.
save_batch(file, st, calls, timestamp, in, fault, profile_config, filenames, keys, pngs) ==
    SaveResult(file,
        [st EXCEPT ![in.bucket] =
            [exists |-> TRUE,
             objects |-> put_all(st[in.bucket].objects,
                            [j \in 1..images_done(Len(in.images), fault) |->
                                [key |-> keys[j], data |-> pngs[j]]])]],
        calls \o [j \in 1..puts_issued(Len(in.images), fault) |->
                    [op |-> "put_object", bucket |-> in.bucket,
                     key |-> keys[j], data |-> pngs[j]]],
        timestamp,
        SubSeq(keys, 1, images_done(Len(in.images), fault)),
        save_outcome(Len(in.images), images_done(Len(in.images), fault), fault,
            [j \in 1..Len(in.images) |->
                [filename |-> filenames[j], object_key |-> keys[j],
                 url |-> make_url(profile_config, in.bucket, keys[j]),
                 bucket |-> in.bucket, profile |-> in.profile,
                 timestamp |-> timestamp, batch_number |-> j - 1]]))

save_named(file, st, calls, timestamp, in, fault, profile_config, filenames) ==
    save_batch(file, st, calls, timestamp, in, fault, profile_config, filenames,
        [j \in 1..Len(in.images) |-> make_object_key(in.prefix, filenames[j])],
        [j \in 1..Len(in.images) |-> encode_png(in.images[j], in.prompt, in.extra_pnginfo)])

save_at(file, st, calls, timestamp, in, fault, profile_config) ==
    save_named(file, st, calls, timestamp, in, fault, profile_config,
        [j \in 1..Len(in.images) |-> make_filename(in.filename_prefix, timestamp, j - 1)])

\* bucket_exists, then make_bucket when it answered false
bucket_calls(existed, bucket, region) ==
    << [op |-> "bucket_exists", bucket |-> bucket] >>
    \o (IF existed THEN <<>>
        ELSE << [op |-> "make_bucket", bucket |-> bucket, location |-> region] >>)

save_with(file, st, now, in, fault, profile_config, calls) ==
    IF ~st[in.bucket].exists /\ fault.at = "make_bucket"
    THEN SaveResult(file, st, calls, "", <<>>,
                    wrap_error("s3_error", S3Error("make_bucket")))
    ELSE save_at(file, st, calls, strftime(now), in, fault, profile_config)

save_as(file, st, now, in, fault, made) ==
    IF made.raised
    THEN SaveResult(file, st, <<>>, "", <<>>, wrap_error("save_failed", made))
    ELSE IF fault.at = "bucket_exists"
    THEN SaveResult(file, st, << [op |-> "bucket_exists", bucket |-> in.bucket] >>, "", <<>>,
                    wrap_error("s3_error", S3Error("bucket_exists")))
    ELSE save_with(file, st, now, in, fault, made.value.profile_config,
                   bucket_calls(st[in.bucket].exists, in.bucket,
                                resolve_region(in.custom_region, made.value.profile_config)))

\* The whole call.
save_images(file, st, now, in, w, fault) ==
    IF Len(in.bucket) = 0
    THEN SaveResult(file, st, <<>>, "", <<>>,
                    Raise("ValueError", [what |-> "bucket_required"]))
    ELSE save_as(load_config_file(file, w), st, now, in, fault,
                 create_from_profile(file, w, in.profile))

----------------------------------------------------------------------------
(* LoadImageFromS3.load_image *)

load_with(st, in, fault, made) ==
    IF made.raised THEN wrap_error("load_failed", made)
    ELSE IF \/ fault.at = "get_object"
            \/ ~st[in.bucket].exists
            \/ ~has_object(st[in.bucket].objects, in.object_key)
    THEN wrap_error("s3_error", S3Error("get_object"))
    ELSE Return(decode_png(get_object(st[in.bucket].objects, in.object_key)))

\* The outcome; the file it leaves is load_config_file (when the profile is
\* resolved at all).
load_image(file, st, in, w, fault) ==
    IF Len(in.bucket) = 0 \/ Len(in.object_key) = 0
    THEN Raise("ValueError", [what |-> "bucket_and_key_required"])
    ELSE load_with(st, in, fault, create_from_profile(file, w, in.profile))

----------------------------------------------------------------------------
(* ListS3Objects.list_objects *)

PrefixTest(o, prefix) == startswith(o.key, prefix)

object_names(hit) == [i \in 1..Len(hit) |-> hit[i].key]

\* The names client.list_objects(bucket, prefix, recursive=True) yields.
under_prefix(objects, prefix) ==
    object_names(SelectSeq(objects, LAMBDA o : PrefixTest(o, prefix)))

reversed(q) == [i \in 1..Len(q) |-> q[Len(q) + 1 - i]]

take_mut(listing, max_objects) == SubSeq(listing, 1, Min(max_objects + 1, Len(listing)))

\* The loop: append until count >= max_objects or the listing ends.
take(listing, max_objects) ==
    IF max_objects <= 0 THEN <<>>
    ELSE SubSeq(listing, 1, Min(max_objects, Len(listing)))

entries_of(names) == [i \in 1..Len(names) |-> [object_name |-> names[i]]]

list_with(st, in, listing, fault, made) ==
    IF made.raised THEN wrap_error("list_failed", made)
    ELSE IF \/ ~st[in.bucket].exists
            \/ (fault.at = "list_objects"
                /\ fault.k <= clip(in.max_objects, 0, Len(listing)))
    THEN wrap_error("s3_error", S3Error("list_objects"))
    ELSE Return(entries_of(take(listing, in.max_objects)))

\* `listing` is the order in which the storage enumerates the objects under
\* the prefix; fault.k is the position at which the enumeration raises.
list_objects(file, st, in, w, listing, fault) ==
    IF Len(in.bucket) = 0
    THEN Raise("ValueError", [what |-> "bucket_required"])
    ELSE list_with(st, in, listing, fault, create_from_profile(file, w, in.profile))

----------------------------------------------------------------------------
(* S3ConfigInfo.get_config_info *)

is_configured(access, secret) ==
    ~(startswith(access.s, "YOUR_") \/ startswith(secret.s, "YOUR_"))

info_entry(profile_name, members, access, secret) ==
    IF access.t # "str"
    THEN Raise("AttributeError", [what |-> "no_attribute", attr |-> "startswith"])
    ELSE IF ~startswith(access.s, "YOUR_") /\ secret.t # "str"
    THEN Raise("AttributeError", [what |-> "no_attribute", attr |-> "startswith"])
    ELSE Return([name |-> profile_name,
                 display_name |-> dict_get(members, "name", JStr(profile_name)),
                 endpoint |-> dict_get(members, "endpoint", JStr("")),
                 configured |-> is_configured(access, secret)])

\* One round of the loop over profiles.items(): the entry appended, or the
\* exception raised.
profile_info(profile_name, profile_data) ==
    IF profile_data.t # "obj"
    THEN Raise("AttributeError", [what |-> "no_attribute", attr |-> "get"])
    ELSE info_entry(profile_name, profile_data.members,
                    dict_get(profile_data.members, "access_key", JStr("")),
                    dict_get(profile_data.members, "secret_key", JStr("")))

Payload(exists, profiles, instructions) ==
    [config_exists |-> exists, profiles |-> profiles, instructions |-> instructions]

info_until(infos, stop) ==
    Payload(TRUE, [i \in 1..(stop - 1) |-> infos[i].value],
            IF stop > Len(infos) THEN [kind |-> "found", n |-> Len(infos)]
            ELSE [kind |-> "errors", cause |-> infos[stop]])

\* The loop stops at the first round that raises; the entries appended
\* before it stay in the payload.
info_loop(infos) ==
    info_until(infos,
        IF \A i \in DOMAIN infos : ~infos[i].raised THEN Len(infos) + 1
        ELSE CHOOSE i \in DOMAIN infos :
                infos[i].raised /\ \A j \in DOMAIN infos : infos[j].raised => i <= j)

info_profiles(profiles) ==
    IF profiles.raised
    THEN Payload(TRUE, <<>>, [kind |-> "errors", cause |-> profiles])
    ELSE IF profiles.value.t # "obj"
    THEN Payload(TRUE, <<>>, [kind |-> "errors", cause |->
                    Raise("AttributeError", [what |-> "no_attribute", attr |-> "items"])])
    ELSE info_loop([i \in 1..Len(profiles.value.members) |->
                        profile_info(profiles.value.members[i][1],
                                     profiles.value.members[i][2])])

info_loaded(loaded) ==
    IF loaded.raised
    THEN Payload(TRUE, <<>>, [kind |-> "errors", cause |-> loaded])
    ELSE info_profiles(get_profiles(loaded.value))

\* get_config_info without the handler that turns a failed load into a payload
get_config_info_mut(file) ==
    IF ~file.exists
    THEN Return(Payload(FALSE, <<>>, [kind |-> "not_found"]))
    ELSE IF load_config(file, Untroubled).raised THEN load_config(file, Untroubled)
    ELSE Return(info_loaded(load_config(file, Untroubled)))

\* The payload that is serialised and returned.  The file exists at both
\* tests or at neither, so load_config does not write.
get_config_info(file) ==
    IF ~file.exists
    THEN Return(Payload(FALSE, <<>>, [kind |-> "not_found"]))
    ELSE Return(info_loaded(load_config(file, Untroubled)))

----------------------------------------------------------------------------
(* INPUT_TYPES of the Save, Load and List nodes: the profile dropdown *)

dropdown(profiles) ==
    [profiles |-> profiles,
     default |-> IF Len(profiles) > 0 THEN profiles[1] ELSE "default"]

input_types(file, w) == dropdown(get_profile_names(file, w))

----------------------------------------------------------------------------
(* Inputs the model draws from *)

\* Configuration files an external edit may leave behind.
custom_config ==
    JObj(<< <<"profiles", JObj(<<
        <<"prod", JObj(<< <<"endpoint", JStr("https://s3.example.com")>>,
                          <<"access_key", JStr("AKIA")>>, <<"secret_key", JStr("s3cr3t")>> >>)>>,
        <<"blank_region", JObj(<< <<"endpoint", JStr("http://localhost:9000")>>,
                          <<"access_key", JStr("AKIA")>>, <<"secret_key", JStr("s3cr3t")>>,
                          <<"secure", JBool(TRUE)>>, <<"region", JStr("")>> >>)>>,
        <<"ph_secret", JObj(<< <<"endpoint", JStr("s3.example.com")>>,
                          <<"access_key", JStr("AKIA")>>, <<"secret_key", JStr("YOUR_SECRET")>> >>)>>,
        <<"no_endpoint", JObj(<< <<"access_key", JStr("YOUR_KEY")>>,
                          <<"secret_key", JStr("s3cr3t")>> >>)>>,
        <<"ph_endpoint", JObj(<< <<"endpoint", JStr("YOUR_ENDPOINT")>>,
                          <<"access_key", JStr("AKIA")>>, <<"secret_key", JStr("YOUR_SECRET")>> >>)>>,
        <<"empty_access", JObj(<< <<"endpoint", JStr("s3.example.com")>>,
                          <<"access_key", JStr("")>>, <<"secret_key", JStr("YOUR_SECRET")>> >>)>>
        >>)>> >>)

odd_config ==
    JObj(<< <<"profiles", JObj(<<
        <<"prod", JObj(<< <<"endpoint", JStr("https://s3.example.com")>>,
                          <<"access_key", JStr("AKIA")>>, <<"secret_key", JStr("s3cr3t")>> >>)>>,
        <<"num_access", JObj(<< <<"endpoint", JStr("s3.example.com")>>,
                          <<"access_key", JNum(5)>>, <<"secret_key", JStr("YOUR_SECRET")>> >>)>>,
        <<"not_dict", JStr("oops")>>,
        <<"false_access", JObj(<< <<"endpoint", JStr("s3.example.com")>>,
                          <<"access_key", JBool(FALSE)>>, <<"secret_key", JStr("YOUR_SECRET")>> >>)>>,
        <<"zero_access", JObj(<< <<"endpoint", JStr("s3.example.com")>>,
                          <<"access_key", JNum(0)>>, <<"secret_key", JStr("YOUR_SECRET")>> >>)>>,
        <<"null_access", JObj(<< <<"endpoint", JStr("s3.example.com")>>,
                          <<"access_key", JNull>>, <<"secret_key", JStr("YOUR_SECRET")>> >>)>>,
        <<"list_access", JObj(<< <<"endpoint", JStr("s3.example.com")>>,
                          <<"access_key", JArr(<<>>)>>, <<"secret_key", JStr("YOUR_SECRET")>> >>)>>,
        <<"dict_access", JObj(<< <<"endpoint", JStr("s3.example.com")>>,
                          <<"access_key", JObj(<<>>)>>, <<"secret_key", JStr("YOUR_SECRET")>> >>)>>,
        <<"true_access", JObj(<< <<"endpoint", JStr("s3.example.com")>>,
                          <<"access_key", JBool(TRUE)>>, <<"secret_key", JStr("YOUR_SECRET")>> >>)>>,
        <<"num_endpoint", JObj(<< <<"endpoint", JNum(5)>>,
                          <<"access_key", JStr("YOUR_KEY")>>, <<"secret_key", JStr("s3cr3t")>> >>)>>,
        <<"false_endpoint", JObj(<< <<"endpoint", JBool(FALSE)>>,
                          <<"access_key", JStr("AKIA")>>, <<"secret_key", JStr("YOUR_SECRET")>> >>)>>
        >>)>> >>)

ConfigContents ==
    { FileJson(default_config), FileJson(custom_config), FileJson(odd_config),
      FileText("garbage"), FileJson(JArr(<<>>)), FileJson(JObj(<<>>)),
      FileJson(JObj(<< <<"profiles", JArr(<<JStr("prod")>>)>> >>)),
      FileJson(JObj(<< <<"profiles", JNull>> >>)) }

ProfileNames ==
    {"aws_s3", "minio_local", "prod", "blank_region", "ph_secret", "no_endpoint",
     "ph_endpoint", "empty_access", "num_access", "not_dict", "missing"}

\* Profiles of odd_config whose fields are not strings; get_profile is called
\* with these names too.
FieldProfileNames ==
    {"false_access", "zero_access", "null_access", "list_access", "dict_access",
     "true_access", "num_endpoint", "false_endpoint"}

\* One-pixel images: three or four channel values, numerators over Unit.
ImageList ==
    << <<0, 128 * Sub, Unit>>,
       <<1, 127 * Sub + 1, Unit - 1>>,
       <<0 - 1, Unit + 1, Sub>>,
       <<Sub, Unit, 0, 100 * Sub + 1>> >>

Batch(n, s) == [i \in 1..n |-> ImageList[((s + i - 1) % Len(ImageList)) + 1]]
Batches == {Batch(n, 0) : n \in 0..MaxImages}
PixelBatches ==
    {Batch(n, 0) : n \in 1..MaxImages} \cup {Batch(1, s) : s \in 0..(Len(ImageList) - 1)}

NoMetadata == [prompt |-> JNull, extra_pnginfo |-> JNull]
SomeMetadata == [prompt |-> JObj(<< <<"1", JStr("KSampler")>> >>),
                 extra_pnginfo |-> JObj(<< <<"workflow", JStr("wf")>> >>)]

SaveParam(profile, bucket, prefix, filename_prefix, custom_region, meta) ==
    [profile |-> profile, bucket |-> bucket, prefix |-> prefix,
     filename_prefix |-> filename_prefix, custom_region |-> custom_region,
     prompt |-> meta.prompt, extra_pnginfo |-> meta.extra_pnginfo]

\* minio_local is a profile of the defaults; prod and blank_region of custom_config
SaveParams ==
    { SaveParam("minio_local", "b1", "comfyui/", "image", "", NoMetadata),
      SaveParam("minio_local", "b1", "comfyui", "image", "eu-west-1", SomeMetadata),
      SaveParam("prod", "b1", "comfyui//", "image", "", NoMetadata),
      SaveParam("prod", "b1", "out/", "img", "eu-west-1", NoMetadata),
      SaveParam("blank_region", "b1", "", "image", "", NoMetadata),
      SaveParam("minio_local", "", "comfyui/", "image", "", NoMetadata),
      SaveParam("aws_s3", "b1", "comfyui/", "image", "", NoMetadata) }

PlainSaveParams ==
    { SaveParam("minio_local", "b1", "comfyui/", "image", "", NoMetadata),
      SaveParam("minio_local", "b1", "out/", "img", "", SomeMetadata) }

ConfigSaveParams ==
    { SaveParam(p, b, "comfyui/", "image", "", NoMetadata) :
        p \in ProfileNames, b \in {"b1", ""} }

SaveFaults(n, existed) ==
    {NoFault, [at |-> "bucket_exists", k |-> 0]}
    \cup (IF existed THEN {} ELSE {[at |-> "make_bucket", k |-> 0]})
    \cup {[at |-> a, k |-> k] : a \in {"encode", "put_object"}, k \in 0..(n - 1)}

\* What a call that loads the configuration can meet: create_default_config
\* is not called when the file exists already.
Outcomes(file) == IF file.exists THEN {Untroubled} ELSE Environments

----------------------------------------------------------------------------
(* Actions *)

\* At start-up the file is absent, or holds what the user put there.
Init ==
    /\ config_file \in {Absent, FileJson(custom_config)}
    /\ store = [b \in Buckets |-> [exists |-> FALSE, objects |-> <<>>]]
    /\ clock = 0
    /\ saves = 0
    /\ written = {}
    /\ last = [op |-> "init"]

\* The same start, against a storage service where the bucket may exist already.
InitStorage ==
    /\ config_file \in {Absent, FileJson(custom_config)}
    /\ store \in {[b \in Buckets |-> [exists |-> e, objects |-> <<>>]] : e \in BOOLEAN}
    /\ clock = 0
    /\ saves = 0
    /\ written = {}
    /\ last = [op |-> "init"]

Tick ==
    /\ clock < MaxClock
    /\ clock' = clock + 1
    /\ UNCHANGED <<config_file, store, saves, written, last>>

\* The user edits, replaces or deletes the configuration file.
ExternalEdit ==
    \E c \in ConfigContents \cup {Absent} :
        /\ c # config_file
        /\ config_file' = c
        /\ last' = [op |-> "external_edit"]
        /\ UNCHANGED <<store, clock, saves, written>>

LoadConfig ==
    \E w \in Outcomes(config_file) :
        /\ config_file' = load_config_file(config_file, w)
        /\ last' = [op |-> "load_config", before |-> config_file, w |-> w,
                    out |-> load_config(config_file, w)]
        /\ UNCHANGED <<store, clock, saves, written>>

\* A direct call of the public S3ConfigManager.create_default_config: it opens
\* the file for writing whether or not it exists.
CreateDefaultConfig ==
    \E w \in Environments :
        /\ config_file' = create_default_config(config_file, w)
        /\ last' = [op |-> "create_default_config", before |-> config_file, w |-> w,
                    out |-> create_default_config_out(w)]
        /\ UNCHANGED <<store, clock, saves, written>>

GetProfile ==
    \E w \in Outcomes(config_file), name \in ProfileNames \cup FieldProfileNames :
        /\ config_file' = load_config_file(config_file, w)
        /\ last' = [op |-> "get_profile", before |-> config_file, w |-> w,
                    profile |-> name, out |-> get_profile(config_file, w, name)]
        /\ UNCHANGED <<store, clock, saves, written>>

InputTypes ==
    \E w \in Outcomes(config_file) :
        /\ config_file' = load_config_file(config_file, w)
        /\ last' = [op |-> "input_types", before |-> config_file, w |-> w,
                    out |-> input_types(config_file, w)]
        /\ UNCHANGED <<store, clock, saves, written>>

ConfigInfo ==
    /\ last' = [op |-> "get_config_info", before |-> config_file,
                out |-> get_config_info(config_file)]
    /\ UNCHANGED <<config_file, store, clock, saves, written>>

Save(params, batches, faulty) ==
    /\ saves < MaxSaves
    /\ \E in0 \in params, images \in batches, w \in Outcomes(config_file) :
        \E existed \in {in0.bucket \in Buckets /\ store[in0.bucket].exists} :
        \E fault \in IF faulty THEN SaveFaults(Len(images), existed) ELSE {NoFault} :
            \E in \in {[images |-> images] @@ in0} :
            \E r \in {save_images(config_file, store, clock, in, w, fault)} :
            /\ config_file' = r.file
            /\ store' = r.store
            /\ saves' = saves + 1
            /\ written' = written \cup
                    {[save |-> saves + 1, index |-> j - 1, bucket |-> in.bucket,
                      key |-> r.stored[j], prefix |-> in.prefix,
                      filename_prefix |-> in.filename_prefix, started |-> clock,
                      image |-> images[j]] : j \in 1..Len(r.stored)}
            /\ last' = [op |-> "save", id |-> saves + 1, in |-> in, fault |-> fault,
                        before |-> config_file, w |-> w, existed |-> existed,
                        existing |-> {b \in Buckets : store[b].exists},
                        started |-> clock, calls |-> r.calls,
                        timestamp |-> r.timestamp, out |-> r.out]
            /\ UNCHANGED clock

Load(profiles, faults) ==
    \E profile \in profiles, bucket \in Buckets \cup {""}, w \in Outcomes(config_file),
       fault \in faults :
        \E object_key \in {"", "comfyui/none.png"}
                          \cup (IF bucket \in Buckets
                                THEN {store[bucket].objects[i].key :
                                        i \in 1..Len(store[bucket].objects)}
                                ELSE {}) :
            \E in \in {[profile |-> profile, bucket |-> bucket, object_key |-> object_key]} :
            /\ config_file' = IF Len(bucket) > 0 /\ Len(object_key) > 0 THEN load_config_file(config_file, w)
                              ELSE config_file
            /\ last' = [op |-> "load", in |-> in, fault |-> fault, before |-> config_file,
                        w |-> w, out |-> load_image(config_file, store, in, w, fault)]
            /\ UNCHANGED <<store, clock, saves, written>>

ListPrefixes == {"", "comfyui/", "other/"}

List(profiles, prefixes, caps, orders) ==
    \E profile \in profiles, bucket \in Buckets \cup {""}, prefix \in prefixes,
       max_objects \in caps, w \in Outcomes(config_file), backwards \in orders :
        \E in \in {[profile |-> profile, bucket |-> bucket, prefix |-> prefix,
                    max_objects |-> max_objects]},
           found \in {IF bucket \in Buckets
                      THEN under_prefix(store[bucket].objects, prefix) ELSE <<>>} :
        \E listing \in {IF backwards THEN reversed(found) ELSE found} :
        \E fault \in {NoFault} \cup (IF backwards THEN {}
                                     ELSE {[at |-> "list_objects", k |-> k] :
                                            k \in 0..Len(listing)}) :
            /\ config_file' = IF Len(bucket) > 0 THEN load_config_file(config_file, w)
                              ELSE config_file
            /\ last' = [op |-> "list", in |-> in, fault |-> fault, listing |-> listing,
                        before |-> config_file, w |-> w,
                        out |-> list_objects(config_file, store, in, w, listing, fault)]
            /\ UNCHANGED <<store, clock, saves, written>>

----------------------------------------------------------------------------
(* Specifications *)

\* Save calls against a storage service whose calls can fail.
Next ==
    \/ Save(SaveParams, Batches, TRUE)

Spec == InitStorage /\ [][Next]_vars

\* Save calls as the clock advances.
NextClock ==
    \/ Tick
    \/ Save(PlainSaveParams, Batches, FALSE)

SpecClock == Init /\ [][NextClock]_vars

\* Save then Load: the pixels.
NextPixels ==
    \/ Save(PlainSaveParams, PixelBatches, FALSE)
    \/ Load({"minio_local"}, {NoFault, [at |-> "get_object", k |-> 0]})

SpecPixels == Init /\ [][NextPixels]_vars

\* Save then List.
NextList ==
    \/ Save(PlainSaveParams, Batches, FALSE)
    \/ List({"minio_local"}, ListPrefixes, 0..MaxK, BOOLEAN)

SpecList == Init /\ [][NextList]_vars

\* The configuration manager and every operation that reads the file.
NextConfig ==
    \/ ExternalEdit
    \/ CreateDefaultConfig
    \/ LoadConfig
    \/ GetProfile
    \/ InputTypes
    \/ ConfigInfo
    \/ Save(ConfigSaveParams, {Batch(1, 0)}, FALSE)
    \/ Load(ProfileNames, {NoFault})
    \/ List(ProfileNames, {""}, {1}, {FALSE})

SpecConfig == Init /\ [][NextConfig]_vars

----------------------------------------------------------------------------
(* Properties *)

\* The operations of the nodes and the reads of the configuration manager; a
\* direct call of create_default_config is not one of them.
PluginOps == {"load_config", "get_profile", "input_types", "get_config_info",
              "save", "load", "list"}

DefaultProfileNames == <<"aws_s3", "minio_local", "digitalocean", "backblaze">>

LoadedMissing == last.op = "load_config" /\ ~last.before.exists

\* C1: load_config on a missing file creates the file with the four default
\* profiles and default_profile aws_s3, returns that configuration and does
\* not raise, whatever the outcome of the write create_default_config attempts.
C1_AnyWriteOutcome ==
    LoadedMissing =>
        /\ ~last.out.raised
        /\ last.out.value = default_config
        /\ config_file = FileJson(default_config)

IsPlaceholder(v) == v.t = "str" /\ startswith(v.s, "YOUR_")
IsValidField(v) == v.t = "str" /\ Len(v.s) > 0 /\ ~startswith(v.s, "YOUR_")
\* Python's truth test fails: missing or null, false, 0, or an empty string,
\* list or object.
IsFalsy(v) == ~Truthy(v)
\* The value passes the truth test and is not a string.
IsTruthyNonString(v) == Truthy(v) /\ v.t # "str"

\* The profile a get_profile call found in the configuration load_config
\* returned to it, when the configuration holds it and it is an object.
ResolvedFile == load_config_file(last.before, last.w)
HoldsProfile ==
    /\ last.op = "get_profile"
    /\ ~load_config(last.before, last.w).raised
    /\ ResolvedFile.exists /\ Parses(ResolvedFile)
    /\ ResolvedFile.json.t = "obj"
    /\ dict_get(ResolvedFile.json.members, "profiles", JNull).t = "obj"
    /\ HasKey(dict_get(ResolvedFile.json.members, "profiles", JNull).members, last.profile)
    /\ dict_get(dict_get(ResolvedFile.json.members, "profiles", JNull).members,
                last.profile, JNull).t = "obj"
TheProfile ==
    dict_get(dict_get(ResolvedFile.json.members, "profiles", JNull).members,
             last.profile, JNull).members
FieldOf(f) == dict_get(TheProfile, f, JNull)
HasPlaceholderKey ==
    HoldsProfile /\ (IsPlaceholder(FieldOf("access_key")) \/ IsPlaceholder(FieldOf("secret_key")))

\* C2 (as stated): a profile whose access_key or secret_key starts with YOUR_
\* makes get_profile fail with a validation error naming that placeholder
\* field, whatever the other fields hold.
C2_NamesPlaceholder ==
    HasPlaceholderKey =>
        /\ last.out.raised
        /\ last.out.exc = "ValueError"
        /\ last.out.msg.what = "invalid_field"
        /\ last.out.msg.field \in {"access_key", "secret_key"}
        /\ IsPlaceholder(FieldOf(last.out.msg.field))

\* C2 (amended): such a profile always makes get_profile raise.  The fields
\* are tested in the order endpoint, access_key, secret_key and the first one
\* that is not a valid string decides: a field that is falsy (missing, null,
\* false, 0, or an empty string, list or object) or starts with YOUR_ gives a
\* ValueError naming that field; a field that is truthy but not a string
\* gives AttributeError.  So the placeholder key is named only when every
\* field before it is a valid string.
C2_NamesFirstInvalid ==
    HasPlaceholderKey =>
        /\ last.out.raised
        /\ (IsFalsy(FieldOf("endpoint")) \/ IsPlaceholder(FieldOf("endpoint")))
            => (last.out.exc = "ValueError" /\ last.out.msg.field = "endpoint")
        /\ IsTruthyNonString(FieldOf("endpoint"))
            => last.out.exc = "AttributeError"
        /\ (IsValidField(FieldOf("endpoint"))
            /\ (IsFalsy(FieldOf("access_key")) \/ IsPlaceholder(FieldOf("access_key"))))
            => (last.out.exc = "ValueError" /\ last.out.msg.field = "access_key")
        /\ (IsValidField(FieldOf("endpoint")) /\ IsTruthyNonString(FieldOf("access_key")))
            => last.out.exc = "AttributeError"
        /\ (IsValidField(FieldOf("endpoint")) /\ IsValidField(FieldOf("access_key")))
            => (/\ last.out.exc = "ValueError"
                /\ last.out.msg.field = "secret_key"
                /\ IsPlaceholder(FieldOf("secret_key")))

C2_Witness ==
    /\ HasPlaceholderKey
    /\ IsValidField(FieldOf("endpoint")) /\ IsValidField(FieldOf("access_key"))
    /\ last.out.raised /\ last.out.msg.field = "secret_key"

\* C5: get_config_info never raises: whatever the file holds it returns a
\* payload reporting whether the file exists, and for a file that exists but
\* does not parse the payload has error instructions and no profiles.
C5_ConfigInfoNeverRaises ==
    last.op = "get_config_info" =>
        /\ ~last.out.raised
        /\ last.out.value.config_exists = last.before.exists
        /\ last.out.value.instructions.kind \in {"found", "errors", "not_found"}
        /\ (last.before.exists /\ ~Parses(last.before))
            => /\ last.out.value.instructions.kind = "errors"
               /\ last.out.value.profiles = <<>>

C5_Witness ==
    /\ last.op = "get_config_info"
    /\ last.before = FileText("garbage")
    /\ ~last.out.raised
    /\ last.out.value.instructions.kind = "errors"

\* C8 (as stated): a plugin operation changes the file only from absent, and
\* then to exactly the defaults.
C8_WritesExactlyDefaults ==
    [][(config_file' # config_file /\ last'.op \in PluginOps)
        => (~config_file.exists /\ config_file' = FileJson(default_config))]_vars

\* C8 (amended): a plugin operation changes the file only in a step where it
\* did not exist; it then holds exactly the defaults when the write succeeded
\* and a truncated file when the write failed after the file was created.
\* Once the file exists, well-formed or not, no plugin operation changes it;
\* only an external edit or a direct call of create_default_config does.
C8_WritesOnlyWhenAbsent ==
    [][(last'.op \in PluginOps)
        => /\ config_file.exists => config_file' = config_file
           /\ config_file' # config_file
                => /\ ~config_file.exists
                   /\ last'.w.write = "ok" => config_file' = FileJson(default_config)
                   /\ last'.w.write # "ok"
                        => (config_file'.exists /\ ~Parses(config_file'))]_vars

C8_Witness ==
    /\ last.op \in {"save", "load", "list", "input_types", "get_profile"}
    /\ ~last.before.exists
    /\ config_file = FileJson(default_config)

----------------------------------------------------------------------------
(* Properties of Save *)

IsPut(c) == c.op = "put_object"
Puts == SelectSeq(last.calls, IsPut)
Saved == last.op = "save" /\ ~last.out.raised

IndexText == <<"0000", "0001", "0002", "0003", "0004">>

\* prefix is base followed by slashes only, and base does not end in a slash
StripsTo(prefix, base) ==
    /\ \E tail \in {"", "/", "//"} : prefix = base \o tail
    /\ ~(Len(base) > 0 /\ SubSeq(base, Len(base), Len(base)) = "/")

\* C3: a Save call on N images that completes returns N records in batch
\* order, makes N put_object calls, and its N keys are pairwise distinct and
\* of the form <prefix without trailing slashes>/<filename_prefix>_<timestamp>_
\* <batch index>, the index zero-padded to four digits and followed by .png,
\* with one timestamp for the whole call.
C3_SaveRecords ==
    Saved =>
        /\ Len(last.out.value) = Len(last.in.images)
        /\ Len(Puts) = Len(last.in.images)
        /\ \A j \in 1..Len(last.out.value) :
            /\ last.out.value[j].batch_number = j - 1
            /\ last.out.value[j].timestamp = last.timestamp
            /\ Puts[j].key = last.out.value[j].object_key
            /\ \E base \in {"", "comfyui", "out"} :
                /\ StripsTo(last.in.prefix, base)
                /\ last.out.value[j].object_key =
                    base \o "/" \o last.in.filename_prefix \o "_" \o last.timestamp
                         \o "_" \o IndexText[j] \o ".png"
        /\ \A i, j \in 1..Len(last.out.value) :
            i # j => last.out.value[i].object_key # last.out.value[j].object_key

C3_Witness == Saved /\ Len(last.in.images) >= 2 /\ Len(Puts) >= 2

SaveResolved ==
    /\ last.op = "save" /\ Len(last.in.bucket) > 0
    /\ ~get_profile(last.before, last.w, last.in.profile).raised

\* the call reached the loop over images and image last.fault.k failed there
FailedAt == SaveResolved /\ last.fault.at \in {"encode", "put_object"}

\* C7: when encoding or uploading image k fails, no put_object is attempted
\* for a later image, none is retried, the call ends with an error and no
\* records, and the objects uploaded for images 0..k-1 stay in the bucket.
C7_AbortsBatch ==
    FailedAt =>
        /\ Len(Puts) = last.fault.k + (IF last.fault.at = "put_object" THEN 1 ELSE 0)
        /\ \A i, j \in 1..Len(Puts) : i # j => Puts[i].key # Puts[j].key
        /\ last.out.raised
        /\ last.out.exc = "ValueError"
        /\ \A j \in 1..last.fault.k :
            /\ has_object(store[last.in.bucket].objects, Puts[j].key)
            /\ get_object(store[last.in.bucket].objects, Puts[j].key) = Puts[j].data

C7_Witness ==
    /\ FailedAt /\ last.fault.k = 1 /\ last.fault.at = "put_object"
    /\ Len(Puts) = 2 /\ Len(store[last.in.bucket].objects) >= 1

IsMake(c) == c.op = "make_bucket"
Makes == SelectSeq(last.calls, IsMake)
SaveProfile ==
    dict_get(dict_get(config_file.json.members, "profiles", JNull).members,
             last.in.profile, JNull).members
ExpectedRegion ==
    IF last.in.custom_region # "" THEN JStr(last.in.custom_region)
    ELSE IF HasKey(SaveProfile, "region") THEN dict_get(SaveProfile, "region", JNull)
    ELSE JStr("us-east-1")

\* C9: in a Save call with a bucket and a profile that resolves, make_bucket
\* is called exactly when bucket_exists answered false, with the resolved
\* region as location, and before every put_object; a put_object is issued
\* only once the bucket was seen or created; no bucket is created when the
\* bucket name is empty or the profile does not resolve.
C9_EnsuresBucket ==
    /\ SaveResolved =>
        /\ Len(Makes) = (IF ~last.existed /\ last.fault.at # "bucket_exists" THEN 1 ELSE 0)
        /\ \A i \in 1..Len(last.calls) :
            /\ IsMake(last.calls[i]) =>
                /\ last.calls[i].location = ExpectedRegion
                /\ last.calls[i].bucket = last.in.bucket
                /\ i = 2 /\ last.calls[1].op = "bucket_exists"
            /\ IsPut(last.calls[i]) =>
                /\ last.calls[1].op = "bucket_exists"
                /\ last.existed \/ (IsMake(last.calls[2]) /\ i > 2)
                /\ store[last.in.bucket].exists
    /\ (last.op = "save" /\ ~SaveResolved) =>
        /\ last.calls = <<>>
        /\ {b \in Buckets : store[b].exists} = last.existing

C9_Witness ==
    /\ SaveResolved /\ ~last.existed /\ Len(Makes) = 1 /\ Len(Puts) >= 1
    /\ last.in.custom_region = "" /\ Makes[1].location = JStr("us-east-1")
    /\ ~HasKey(SaveProfile, "region")

SamePlace(h) ==
    /\ h.save < last.id
    /\ h.bucket = last.in.bucket
    /\ h.prefix = last.in.prefix
    /\ h.filename_prefix = last.in.filename_prefix

\* C10 (as stated): no put_object of a Save call targets a key that an
\* earlier Save call with the same bucket, prefix and filename prefix wrote,
\* two calls within one clock second included.
C10_NeverOverwrites ==
    last.op = "save" =>
        \A j \in 1..Len(Puts) : \A h \in written : SamePlace(h) => h.key # Puts[j].key

\* C10 (amended): a put_object of a Save call targets a key that an earlier
\* Save call with the same bucket, prefix and filename prefix wrote exactly
\* when the two calls started within the same clock second and the two
\* images have the same batch index; calls in different seconds never
\* overwrite each other.
C10_OverwritesOnlyWithinSecond ==
    last.op = "save" =>
        \A j \in 1..Len(Puts) : \A h \in written :
            SamePlace(h) =>
                (h.key = Puts[j].key
                    <=> (/\ h.started \div TicksPerSecond = last.started \div TicksPerSecond
                         /\ h.index = j - 1))

C10_Witness ==
    /\ last.op = "save" /\ Len(Puts) >= 1
    /\ \E h \in written :
        /\ SamePlace(h) /\ h.index = 0
        /\ h.started \div TicksPerSecond # last.started \div TicksPerSecond
        /\ h.key # Puts[1].key

----------------------------------------------------------------------------
(* Properties of List and of the Save/Load round trip *)

Listed == last.op = "list" /\ ~last.out.raised

Held ==
    {i \in 1..Len(store[last.in.bucket].objects) :
        startswith(store[last.in.bucket].objects[i].key, last.in.prefix)}

\* C4: a listing with max_objects = K returns min(K, M) entries, never more
\* than K, where M objects are under the prefix, and they are the first
\* min(K, M) the storage enumerated.
C4_ListCapped ==
    Listed =>
        /\ Len(last.listing) = Cardinality(Held)
        /\ Len(last.out.value) <= last.in.max_objects
        /\ Len(last.out.value) = Min(last.in.max_objects, Cardinality(Held))
        /\ \A i \in 1..Len(last.out.value) :
            last.out.value[i].object_name = last.listing[i]

C4_Witness ==
    /\ Listed /\ last.in.max_objects >= 1
    /\ Cardinality(Held) > last.in.max_objects
    /\ Len(last.out.value) = last.in.max_objects

Loaded == last.op = "load" /\ ~last.out.raised

\* The image whose upload the loaded object is: the latest one under the key.
IsSource(h) ==
    /\ h.bucket = last.in.bucket /\ h.key = last.in.object_key
    /\ \A g \in written :
        (g.bucket = h.bucket /\ g.key = h.key) => g.save <= h.save

\* C6 (as stated): the loaded pixels equal the saved ones exactly, and the
\* mask is all zeros when the saved image had no alpha channel.
C6_ExactRoundTrip ==
    Loaded =>
        \A h \in written : IsSource(h) =>
            /\ \A c \in 1..3 : last.out.value.image[1][c] = h.image[c]
            /\ Len(h.image) = 3 => last.out.value.mask = <<0>>

\* C6 (amended): each loaded pixel value is the saved one clipped to [0, 1]
\* and truncated down to a multiple of 1/255: it never exceeds the clipped
\* original, is less than 1/255 below it, and equals it exactly when the
\* original is a multiple of 1/255 in [0, 1]; the mask is all zeros when the
\* saved image had no alpha channel.
C6_QuantisedRoundTrip ==
    Loaded =>
        \A h \in written : IsSource(h) =>
            /\ \A c \in 1..3 :
                /\ last.out.value.image[1][c] % Sub = 0
                /\ last.out.value.image[1][c] <= clip(h.image[c], 0, Unit)
                /\ clip(h.image[c], 0, Unit) < last.out.value.image[1][c] + Sub
            /\ Len(h.image) = 3 => last.out.value.mask = <<0>>

C6_Witness ==
    /\ Loaded
    /\ \E h \in written :
        /\ IsSource(h) /\ Len(h.image) = 3
        /\ h.image[1] \in 0..Unit /\ h.image[1] % Sub # 0
        /\ last.out.value.image[1][1] # h.image[1]
        /\ last.out.value.mask = <<0>>

====
